---- MODULE Spec2Model ----
(***************************************************************************)
(* Reservoir network generation (src/src/resorr/generate_network.py) and   *)
(* the TMS-OS surface-area filter (src/src/sarath_filtering.py).           *)
(*                                                                         *)
(* generate_network is modelled as a state machine: the reservoir-location *)
(* raster is filled station by station, then every node is traced down the *)
(* flow-direction grid one loop iteration at a time.  Positional indexing  *)
(* (DataArray.isel) is modelled with the semantics of the array library:   *)
(* an index i of an axis of size n is valid for -n <= i < n, a negative    *)
(* index counts from the end, anything else raises IndexError.             *)
(***************************************************************************)
EXTENDS Integers, Sequences, FiniteSets

\* ------------------------------------------------------------------------
\* Inputs and their bounds
\* ------------------------------------------------------------------------

\* not-a-number: the masked value of the flow-direction band and the fill of
\* the reservoir-location raster.  Station ids are 0, 1, ... and direction
\* codes are 1..8, so -1 is free to stand for it.
NaN == -1

\* coordinate axes of the flow-direction raster (x increasing, y decreasing,
\* as in a north-up raster), cell spacing 2 so that a station can lie exactly
\* half-way between two cells
XAxis == <<0, 2>>
YAxis == <<2, 0>>

Cols == Len(XAxis)
Rows == Len(YAxis)
ColIdx == 0 .. (Cols - 1)
RowIdx == 0 .. (Rows - 1)

\* largest number of rows of the station table
MaxStations == 2

Codes == 1 .. 8
Grids == [RowIdx -> [ColIdx -> Codes \cup {NaN}]]

\* station tables of the network specification: 1..MaxStations rows of
\* <<lon, lat>>, every station on a cell centre
OnAxis(axis) == {axis[i] : i \in 1 .. Len(axis)}
Tables(lons, lats) ==
    UNION {[1 .. n -> lons \X lats] : n \in 1 .. MaxStations}

\* ------------------------------------------------------------------------
\* State
\* ------------------------------------------------------------------------
VARIABLES
    band,         \* band_vicfmt: flow-direction codes, band[y][x]
    stations,     \* reservoirs: row k+1 is station id k, <<lon, lat>>
    raster,       \* reservoir_location_raster[y][x]
    G,            \* edges of the GeoDiGraph, <<source, target>>
    pc,           \* "snap", "trace", "walk", "done", "raised"
    resid,        \* row of the snapping loop
    node,         \* node of the tracing loop
    idxx, idxy,   \* current indices of the trace
    visited,      \* cells the trace has been at, <<x, y>>
    current_pix,  \* direction code at the current cell
    steps,        \* history: iterations of the while loop, per node
    result,       \* history: how each node's trace ended
    offgrid,      \* history: the trace computed an index outside the grid
    tr,           \* the traces run as independent tasks: per node, the
                  \* locals of its trace (st, x, y, pix, vis)
    \* filtering (sarath_filtering.py)
    satellites,        \* the satellites argument (only membership is used)
    res_nomArea,       \* nominal areas, one per reservoir of res_list
    filt_2_thresh,     \* threshold of filter 2, percent of the nominal area
    fpc,               \* "idle", "assert", "load", "merge", "filt2", "done", "error"
    ferror,            \* the exception filtering() was left with, or "none"
    curr_dam_index,    \* index of the loop over res_list
    optical_to_concat, \* the optical series loaded for the current reservoir
    s1_bound,          \* res_wa_timeseries_s1 is bound
    WA_Optical_in,     \* merged_pdf_remOutliers['WA_Optical']
    WA_Optical,        \* merged_pdf_filt2['WA_Optical']
    WA_SAR,            \* merged_pdf_filt2['WA_SAR']
    deviations,        \* merged_pdf_filt2['deviations']
    row,               \* row of the loop of filter 2
    data               \* len(data): reservoirs processed

netvars == <<band, stations, raster, G, pc, resid, node, idxx, idxy,
             visited, current_pix, steps, result, offgrid, tr>>

filtvars == <<satellites, res_nomArea, filt_2_thresh, fpc, ferror,
              curr_dam_index, optical_to_concat, s1_bound, WA_Optical_in,
              WA_Optical, WA_SAR, deviations, row, data>>

vars == <<netvars, filtvars>>

N == Len(stations)
Nodes == 0 .. (N - 1)
lon(n) == stations[n + 1][1]
lat(n) == stations[n + 1][2]

\* ------------------------------------------------------------------------
\* Helpers
\* ------------------------------------------------------------------------
Abs(a) == IF a < 0 THEN -a ELSE a

\* Index.get_indexer([q], method="nearest")[0] on a strictly monotonic axis:
\* the 0-based position of the closest value; the query is clamped to the
\* ends; on an exact tie the larger coordinate wins (pandas compares the
\* left distance with < on an increasing and with <= on a decreasing axis).
NearestIndex(axis, q) ==
    LET I == 1 .. Len(axis)
        best == {i \in I : \A j \in I : Abs(axis[i] - q) <= Abs(axis[j] - q)}
    IN  (CHOOSE i \in best : \A j \in best : axis[j] <= axis[i]) - 1

\* direction code -> [d_row, d_col]
operations(code) ==
    CASE code = 1 -> <<-1, 0>>
      [] code = 2 -> <<-1, 1>>
      [] code = 3 -> <<0, 1>>
      [] code = 4 -> <<1, 1>>
      [] code = 5 -> <<1, 0>>
      [] code = 6 -> <<1, -1>>
      [] code = 7 -> <<0, -1>>
      [] code = 8 -> <<-1, -1>>

\* positional indexing of an axis of size n with the integer i
InBounds(i, n) == -n <= i /\ i < n
Position(i, n) == IF i < 0 THEN i + n ELSE i

\* arr.isel(x=x, y=y) for indices that are in bounds
Isel(arr, x, y) == arr[Position(y, Rows)][Position(x, Cols)]

\* (variant: a cell already taken keeps its id)
WriteRasterKeepFirst(r, y, x, id) ==
    IF r[y][x] = NaN THEN [r EXCEPT ![y][x] = id] ELSE r

\* reservoir_location_raster[rast_lat, rast_lon] = resid
WriteRaster(r, y, x, id) == [r EXCEPT ![y][x] = id]

\* (variant: the starting cell is not recorded)
StartVisitedEmpty(x, y) == {}

\* visited = [(idxx, idxy)]
StartVisited(x, y) == {<<x, y>>}

\* G.add_edge(node, int(any_reservoir))
AddEdge(g, n, m) == g \cup {<<n, m>>}

\* (variant: the raster is looked up before the no-data check)
StepOutcomeReservoirFirst(vis, nx, ny, bnd, rast) ==
    IF <<nx, ny>> \in vis THEN "loop"
    ELSE IF ~(InBounds(nx, Cols) /\ InBounds(ny, Rows)) THEN "raise"
    ELSE IF Isel(rast, nx, ny) # NaN THEN "reservoir"
    ELSE IF Isel(bnd, nx, ny) = NaN THEN "nan"
    ELSE "continue"

\* One iteration of the while loop, up to the point where it is decided:
\*   "loop"      the new cell is in visited                    (132-135)
\*   "raise"     band_vicfmt.isel raises IndexError, which is
\*               outside the try block                         (139)
\*   "nan"       the new cell is no-data                       (140-143)
\*   "caught"    reservoir_location_raster.isel raises
\*               IndexError inside the try block               (146, 159-161)
\*   "reservoir" the raster holds an id at the new cell        (147-158)
\*   "continue"  none of these
\* The raster has the shape of the band, so "caught" cannot follow a
\* successful read of the band.
StepOutcome(vis, nx, ny, bnd, rast) ==
    IF <<nx, ny>> \in vis THEN "loop"
    ELSE IF ~(InBounds(nx, Cols) /\ InBounds(ny, Rows)) THEN "raise"
    ELSE IF Isel(bnd, nx, ny) = NaN THEN "nan"
    ELSE IF ~(InBounds(nx, Cols) /\ InBounds(ny, Rows)) THEN "caught"
    ELSE IF Isel(rast, nx, ny) # NaN THEN "reservoir"
    ELSE "continue"

\* (variant: no break after the edge is added)
TraceEndsNoBreak(outcome) == outcome \in {"loop", "nan", "caught"}

\* END = True / break
TraceEnds(outcome) == outcome \in {"loop", "nan", "caught", "reservoir"}

new_idxy == idxy + operations(current_pix)[1]
new_idxx == idxx + operations(current_pix)[2]
Outcome == StepOutcome(visited, new_idxx, new_idxy, band, raster)
OffGrid(x, y) == ~(x \in ColIdx /\ y \in RowIdx)

\* ------------------------------------------------------------------------
\* generate_network
\* ------------------------------------------------------------------------
FilterIdle ==
    /\ satellites = {}
    /\ res_nomArea = <<>>
    /\ filt_2_thresh = 0
    /\ fpc = "idle"
    /\ ferror = "none"
    /\ curr_dam_index = 0
    /\ optical_to_concat = <<>>
    /\ s1_bound = FALSE
    /\ WA_Optical_in = <<>>
    /\ WA_Optical = <<>>
    /\ WA_SAR = <<>>
    /\ deviations = <<>>
    /\ row = 0
    /\ data = 0

\* a trace that has not started
IdleTrace == [st |-> "idle", x |-> 0, y |-> 0, pix |-> NaN, vis |-> {}]

NetworkInit(grids, tables) ==
    /\ band \in grids
    /\ stations \in tables
    /\ raster = [y \in RowIdx |-> [x \in ColIdx |-> NaN]]
    /\ G = {}
    /\ pc = "snap"
    /\ resid = 0
    /\ node = 0
    /\ idxx = 0
    /\ idxy = 0
    /\ visited = {}
    /\ current_pix = NaN
    /\ steps = [n \in 0 .. (Len(stations) - 1) |-> 0]
    /\ result = [n \in 0 .. (Len(stations) - 1) |-> "pending"]
    /\ offgrid = [n \in 0 .. (Len(stations) - 1) |-> FALSE]
    /\ tr = [n \in 0 .. (Len(stations) - 1) |-> IdleTrace]
    /\ FilterIdle

Init == NetworkInit(Grids, Tables(OnAxis(XAxis), OnAxis(YAxis)))

\* the snapping specification: a sample raster, stations anywhere around it
\* (between cell centres and beyond both ends of the axes)
SnapGrids == {<<<<7, 3>>, <<3, NaN>>>>, <<<<5, 6>>, <<2, 1>>>>}
SnapCoords == -1 .. 3
InitSnap ==
    NetworkInit({[y \in RowIdx |-> [x \in ColIdx |-> g[y + 1][x + 1]]] :
                    g \in SnapGrids},
                Tables(SnapCoords, SnapCoords))

\* lines 78-85: one row of the station table
Snap ==
    /\ pc = "snap"
    /\ raster' = WriteRaster(raster, NearestIndex(YAxis, lat(resid)),
                             NearestIndex(XAxis, lon(resid)), resid)
    /\ resid' = resid + 1
    /\ pc' = IF resid + 1 < N THEN "snap" ELSE "trace"
    /\ UNCHANGED <<band, stations, G, node, idxx, idxy, visited,
                   current_pix, steps, result, offgrid>>
    /\ UNCHANGED <<tr, filtvars>>

\* the for loop over G.nodes moves on, or the function returns
Advance == IF node + 1 < N THEN "trace" ELSE "done"
NextNode == IF node + 1 < N THEN node + 1 ELSE node

\* lines 102-125: the start of a node's trace
BeginTrace ==
    /\ pc = "trace"
    /\ LET x == NearestIndex(XAxis, lon(node))
           y == NearestIndex(YAxis, lat(node))
           pix == Isel(band, x, y)
       IN  /\ idxx' = x
           /\ idxy' = y
           /\ visited' = StartVisited(x, y)
           /\ current_pix' = pix
           /\ IF pix = NaN
              THEN /\ pc' = Advance
                   /\ node' = NextNode
                   /\ result' = [result EXCEPT ![node] = "nan"]
              ELSE /\ pc' = "walk"
                   /\ UNCHANGED <<node, result>>
    /\ UNCHANGED <<band, stations, raster, G, resid, steps, offgrid>>
    /\ UNCHANGED <<tr, filtvars>>

\* lines 128-130 and the history of the iteration
Move ==
    /\ idxx' = new_idxx
    /\ idxy' = new_idxy
    /\ steps' = [steps EXCEPT ![node] = @ + 1]
    /\ offgrid' = [offgrid EXCEPT ![node] = @ \/ OffGrid(new_idxx, new_idxy)]

\* an iteration that ends the trace without an edge
StepEnd ==
    /\ pc = "walk"
    /\ Outcome \in {"loop", "nan", "caught"}
    /\ Move
    /\ visited' = IF Outcome = "loop" THEN visited
                  ELSE visited \cup {<<new_idxx, new_idxy>>}
    /\ current_pix' = IF Outcome = "loop" THEN current_pix
                      ELSE Isel(band, new_idxx, new_idxy)
    /\ result' = [result EXCEPT ![node] = Outcome]
    /\ pc' = Advance
    /\ node' = NextNode
    /\ UNCHANGED <<band, stations, raster, G, resid>>
    /\ UNCHANGED <<tr, filtvars>>

\* an iteration in which the band read raises IndexError: nothing catches
\* it, generate_network is left with the exception
StepRaise ==
    /\ pc = "walk"
    /\ Outcome = "raise"
    /\ Move
    /\ visited' = visited \cup {<<new_idxx, new_idxy>>}
    /\ result' = [result EXCEPT ![node] = "raise"]
    /\ pc' = "raised"
    /\ UNCHANGED <<band, stations, raster, G, resid, node, current_pix>>
    /\ UNCHANGED <<tr, filtvars>>

\* an iteration that finds a reservoir id at the new cell
StepEdge ==
    /\ pc = "walk"
    /\ Outcome = "reservoir"
    /\ Move
    /\ visited' = visited \cup {<<new_idxx, new_idxy>>}
    /\ current_pix' = Isel(band, new_idxx, new_idxy)
    /\ G' = AddEdge(G, node, Isel(raster, new_idxx, new_idxy))
    /\ IF TraceEnds("reservoir")
       THEN /\ result' = [result EXCEPT ![node] = "reservoir"]
            /\ pc' = Advance
            /\ node' = NextNode
       ELSE UNCHANGED <<result, pc, node>>
    /\ UNCHANGED <<band, stations, raster, resid>>
    /\ UNCHANGED <<tr, filtvars>>

\* an iteration that goes on to the next cell
StepContinue ==
    /\ pc = "walk"
    /\ Outcome = "continue"
    /\ Move
    /\ visited' = visited \cup {<<new_idxx, new_idxy>>}
    /\ current_pix' = Isel(band, new_idxx, new_idxy)
    /\ UNCHANGED <<band, stations, raster, G, pc, resid, node, result>>
    /\ UNCHANGED <<tr, filtvars>>

Next ==
    \/ Snap
    \/ BeginTrace
    \/ StepEnd
    \/ StepRaise
    \/ StepEdge
    \/ StepContinue

Spec == Init /\ [][Next]_vars

SpecSnap == InitSnap /\ [][Next]_vars

\* ------------------------------------------------------------------------
\* generate_network with the traces as independent tasks
\*
\* The body of the loop over G.nodes (lines 103-161) reads band_vicfmt and
\* reservoir_location_raster and writes its locals and G.  Here every node
\* runs that body as a task of its own, with its own locals, and the tasks
\* are interleaved iteration by iteration in any order; tracing the nodes
\* one after the other, in any order, is a special case.  G is shared and
\* written one edge at a time.  An IndexError in any task leaves
\* generate_network, as in the loop.
\* ------------------------------------------------------------------------

\* flow-direction grids of the task specification: the four cardinal codes
\* and no-data
CardinalCodes == {1, 3, 5, 7}
CardinalGrids == [RowIdx -> [ColIdx -> CardinalCodes \cup {NaN}]]

InitTasks == NetworkInit(CardinalGrids, Tables(OnAxis(XAxis), OnAxis(YAxis)))

\* (variant: one visited list for all the traces)
TaskVisitedShared(t, n) == UNION {t[m].vis : m \in DOMAIN t}

\* the visited list of node n's trace (line 113: a local of the loop body)
TaskVisited(t, n) == t[n].vis

task_new_idxy(n) == tr[n].y + operations(tr[n].pix)[1]
task_new_idxx(n) == tr[n].x + operations(tr[n].pix)[2]
TaskOutcome(n) ==
    StepOutcome(TaskVisited(tr, n), task_new_idxx(n), task_new_idxy(n),
                band, raster)

\* the function returns when the last trace has ended
TasksAdvance(n) ==
    IF \A m \in Nodes \ {n} : tr[m].st = "ended" THEN "done" ELSE "trace"

TaskUnchanged ==
    UNCHANGED <<band, stations, raster, resid, node, idxx, idxy, visited,
                current_pix, steps, result, offgrid, filtvars>>

\* lines 103-125
TaskBegin(n) ==
    /\ pc = "trace"
    /\ tr[n].st = "idle"
    /\ LET x == NearestIndex(XAxis, lon(n))
           y == NearestIndex(YAxis, lat(n))
           pix == Isel(band, x, y)
       IN  /\ tr' = [tr EXCEPT ![n] =
                        [st |-> IF pix = NaN THEN "ended" ELSE "walk",
                         x |-> x, y |-> y, pix |-> pix,
                         vis |-> StartVisited(x, y)]]
           /\ pc' = IF pix = NaN THEN TasksAdvance(n) ELSE "trace"
    /\ UNCHANGED G
    /\ TaskUnchanged

\* lines 127-161: an iteration that ends the trace without an edge
TaskStepEnd(n) ==
    /\ pc = "trace"
    /\ tr[n].st = "walk"
    /\ TaskOutcome(n) \in {"loop", "nan", "caught"}
    /\ tr' = [tr EXCEPT ![n] =
                 [st |-> "ended",
                  x |-> task_new_idxx(n), y |-> task_new_idxy(n),
                  pix |-> IF TaskOutcome(n) = "loop" THEN tr[n].pix ELSE NaN,
                  vis |-> IF TaskOutcome(n) = "loop" THEN tr[n].vis
                          ELSE tr[n].vis \cup
                                   {<<task_new_idxx(n), task_new_idxy(n)>>}]]
    /\ pc' = TasksAdvance(n)
    /\ UNCHANGED G
    /\ TaskUnchanged

\* line 139 raises IndexError
TaskStepRaise(n) ==
    /\ pc = "trace"
    /\ tr[n].st = "walk"
    /\ TaskOutcome(n) = "raise"
    /\ tr' = [tr EXCEPT ![n] =
                 [st |-> "raised",
                  x |-> task_new_idxx(n), y |-> task_new_idxy(n),
                  pix |-> tr[n].pix,
                  vis |-> tr[n].vis \cup
                              {<<task_new_idxx(n), task_new_idxy(n)>>}]]
    /\ pc' = "raised"
    /\ UNCHANGED G
    /\ TaskUnchanged

\* lines 145-158: a reservoir id at the new cell
TaskStepEdge(n) ==
    /\ pc = "trace"
    /\ tr[n].st = "walk"
    /\ TaskOutcome(n) = "reservoir"
    /\ tr' = [tr EXCEPT ![n] =
                 [st |-> "ended",
                  x |-> task_new_idxx(n), y |-> task_new_idxy(n),
                  pix |-> Isel(band, task_new_idxx(n), task_new_idxy(n)),
                  vis |-> tr[n].vis \cup
                              {<<task_new_idxx(n), task_new_idxy(n)>>}]]
    /\ G' = AddEdge(G, n, Isel(raster, task_new_idxx(n), task_new_idxy(n)))
    /\ pc' = TasksAdvance(n)
    /\ TaskUnchanged

\* the trace goes on to the next cell
TaskStepContinue(n) ==
    /\ pc = "trace"
    /\ tr[n].st = "walk"
    /\ TaskOutcome(n) = "continue"
    /\ tr' = [tr EXCEPT ![n] =
                 [st |-> "walk",
                  x |-> task_new_idxx(n), y |-> task_new_idxy(n),
                  pix |-> Isel(band, task_new_idxx(n), task_new_idxy(n)),
                  vis |-> tr[n].vis \cup
                              {<<task_new_idxx(n), task_new_idxy(n)>>}]]
    /\ UNCHANGED <<G, pc>>
    /\ TaskUnchanged

TasksNext ==
    \/ Snap
    \/ \E n \in Nodes : TaskBegin(n)
    \/ \E n \in Nodes : TaskStepEnd(n)
    \/ \E n \in Nodes : TaskStepRaise(n)
    \/ \E n \in Nodes : TaskStepEdge(n)
    \/ \E n \in Nodes : TaskStepContinue(n)

SpecTasks == InitTasks /\ [][TasksNext]_vars

\* ------------------------------------------------------------------------
\* filtering
\* ------------------------------------------------------------------------

\* the values the docstring gives for the satellites argument
SatelliteNames == {"l8", "l9", "s2", "s1", "sar"}

\* largest number of rows of the merged series
MaxRows == 2

AreaValues == {40, 50, 60}
Series == UNION {[1 .. n -> AreaValues] : n \in 1 .. MaxRows}

\* nominal areas are multiples of 100 km^2, so that the threshold, a
\* percentage of them, is a whole number
NomAreaLists == {<<100>>, <<100, 200>>}
Thresholds == {5, 10}

FilterInit ==
    /\ satellites \in SUBSET SatelliteNames
    /\ res_nomArea \in NomAreaLists
    /\ filt_2_thresh \in Thresholds
    /\ fpc = "assert"
    /\ ferror = "none"
    /\ curr_dam_index = 0
    /\ optical_to_concat = <<>>
    /\ s1_bound = FALSE
    /\ WA_Optical_in = <<>>
    /\ WA_Optical = <<>>
    /\ WA_SAR = <<>>
    /\ deviations = <<>>
    /\ row = 0
    /\ data = 0
    /\ band = [y \in RowIdx |-> [x \in ColIdx |-> NaN]]
    /\ stations = <<>>
    /\ raster = [y \in RowIdx |-> [x \in ColIdx |-> NaN]]
    /\ G = {}
    /\ pc = "idle"
    /\ resid = 0
    /\ node = 0
    /\ idxx = 0
    /\ idxy = 0
    /\ visited = {}
    /\ current_pix = NaN
    /\ steps = <<>>
    /\ result = <<>>
    /\ offgrid = <<>>
    /\ tr = <<>>

\* lines 18-19: the two assertions
SarRequested(sats) == "s1" \in sats \/ "sar" \in sats
OpticalRequested(sats) == "l8" \in sats \/ "l9" \in sats \/ "s2" \in sats

\* lines 25-38: the optical series that are read, in the order of the code
OpticalLoaded(sats) ==
    (IF "l8" \in sats THEN <<"l8">> ELSE <<>>)
        \o (IF "s2" \in sats THEN <<"s2">> ELSE <<>>)

\* line 39: the condition under which the SAR series is read
SarLoaded(sats) == "s1" \in sats

\* line 108: filt2_thresh_values[1]
Filt2Thresh(nom, thresh) == (nom * thresh) \div 100

\* line 114
IsOutlier(d, t) == d < -t \/ d > t

\* line 123: np.abs(d / d)
DevSign(d) == Abs(d \div d)

\* line 124
ModVal(opt, d, nom, thresh) == opt + DevSign(d) * Filt2Thresh(nom, thresh) - d

CheckSatellites ==
    /\ fpc = "assert"
    /\ IF SarRequested(satellites) /\ OpticalRequested(satellites)
       THEN /\ fpc' = "load"
            /\ UNCHANGED ferror
       ELSE /\ fpc' = "error"
            /\ ferror' = "AssertionError"
    /\ UNCHANGED <<satellites, res_nomArea, filt_2_thresh, curr_dam_index,
                   optical_to_concat, s1_bound, WA_Optical_in, WA_Optical,
                   WA_SAR, deviations, row, data>>
    /\ UNCHANGED netvars

\* lines 24-43
LoadSeries ==
    /\ fpc = "load"
    /\ optical_to_concat' = OpticalLoaded(satellites)
    /\ s1_bound' = (s1_bound \/ SarLoaded(satellites))
    /\ fpc' = "merge"
    /\ UNCHANGED <<satellites, res_nomArea, filt_2_thresh, ferror,
                   curr_dam_index, WA_Optical_in, WA_Optical, WA_SAR,
                   deviations, row, data>>
    /\ UNCHANGED netvars

\* line 46: pd.concat of an empty list raises ValueError
ConcatRaises ==
    /\ fpc = "merge"
    /\ optical_to_concat = <<>>
    /\ fpc' = "error"
    /\ ferror' = "ValueError"
    /\ UNCHANGED <<satellites, res_nomArea, filt_2_thresh, curr_dam_index,
                   optical_to_concat, s1_bound, WA_Optical_in, WA_Optical,
                   WA_SAR, deviations, row, data>>
    /\ UNCHANGED netvars

\* line 52: res_wa_timeseries_s1 is read without having been assigned
SarUnbound ==
    /\ fpc = "merge"
    /\ optical_to_concat # <<>>
    /\ ~s1_bound
    /\ fpc' = "error"
    /\ ferror' = "UnboundLocalError"
    /\ UNCHANGED <<satellites, res_nomArea, filt_2_thresh, curr_dam_index,
                   optical_to_concat, s1_bound, WA_Optical_in, WA_Optical,
                   WA_SAR, deviations, row, data>>
    /\ UNCHANGED netvars

\* lines 46-110: the series are merged and filter 1 is applied; what comes
\* out depends on the files read, so the optical and SAR columns that reach
\* filter 2 are any series of equal length; deviations is their difference
Merge ==
    /\ fpc = "merge"
    /\ optical_to_concat # <<>>
    /\ s1_bound
    /\ \E opt \in Series, sar \in Series :
          /\ Len(opt) = Len(sar)
          /\ WA_Optical_in' = opt
          /\ WA_Optical' = opt
          /\ WA_SAR' = sar
          /\ deviations' = [k \in 1 .. Len(opt) |-> opt[k] - sar[k]]
    /\ row' = 1
    /\ fpc' = "filt2"
    /\ UNCHANGED <<satellites, res_nomArea, filt_2_thresh, ferror,
                   curr_dam_index, optical_to_concat, s1_bound, data>>
    /\ UNCHANGED netvars

\* lines 114-126: one row of the series; the loop body runs for outliers
Filter2Row ==
    /\ fpc = "filt2"
    /\ row <= Len(WA_Optical)
    /\ LET res_nom_SA == res_nomArea[curr_dam_index + 1]
           t == Filt2Thresh(res_nom_SA, filt_2_thresh)
       IN  WA_Optical' =
               IF IsOutlier(deviations[row], t)
               THEN [WA_Optical EXCEPT ![row] =
                        ModVal(WA_Optical[row], deviations[row],
                               res_nom_SA, filt_2_thresh)]
               ELSE WA_Optical
    /\ row' = row + 1
    /\ UNCHANGED <<satellites, res_nomArea, filt_2_thresh, fpc, ferror,
                   curr_dam_index, optical_to_concat, s1_bound,
                   WA_Optical_in, WA_SAR, deviations, data>>
    /\ UNCHANGED netvars

\* lines 128-177: filter 3 works on a copy of the series (it is not
\* modelled), the result is appended to data and the loop moves on
FinishReservoir ==
    /\ fpc = "filt2"
    /\ row > Len(WA_Optical)
    /\ data' = data + 1
    /\ curr_dam_index' = curr_dam_index + 1
    /\ fpc' = IF curr_dam_index + 1 < Len(res_nomArea) THEN "load" ELSE "done"
    /\ UNCHANGED <<satellites, res_nomArea, filt_2_thresh, ferror,
                   optical_to_concat, s1_bound, WA_Optical_in, WA_Optical,
                   WA_SAR, deviations, row>>
    /\ UNCHANGED netvars

FilterNext ==
    \/ CheckSatellites
    \/ LoadSeries
    \/ ConcatRaises
    \/ SarUnbound
    \/ Merge
    \/ Filter2Row
    \/ FinishReservoir

SpecFilter == FilterInit /\ [][FilterNext]_vars

\* ------------------------------------------------------------------------
\* Properties of generate_network
\* ------------------------------------------------------------------------

\* the cell a station is snapped to
SnapX(n) == NearestIndex(XAxis, lon(n))
SnapY(n) == NearestIndex(YAxis, lat(n))
OutEdges(n) == {e \in G : e[1] = n}
Traced(n) == node > n \/ pc = "done"

\* The downstream path of the specification, on cells of the grid only:
\* follow the direction codes from cell <<x, y>> (which has a code) until
\* the next cell is off the grid, has been visited, is no-data, or holds a
\* reservoir id; <<how the path ends, the id reached or NaN, cells stepped>>.
RECURSIVE Follow(_, _, _)
Follow(x, y, vis) ==
    LET ny == y + operations(band[y][x])[1]
        nx == x + operations(band[y][x])[2]
    IN  IF ~(nx \in ColIdx /\ ny \in RowIdx) THEN <<"offgrid", NaN>>
        ELSE IF <<nx, ny>> \in vis THEN <<"cycle", NaN>>
        ELSE IF band[ny][nx] = NaN THEN <<"nodata", NaN>>
        ELSE IF raster[ny][nx] # NaN THEN <<"reservoir", raster[ny][nx]>>
        ELSE Follow(nx, ny, vis \cup {<<nx, ny>>})

Downstream(n) ==
    IF band[SnapY(n)][SnapX(n)] = NaN THEN <<"nodata", NaN>>
    ELSE Follow(SnapX(n), SnapY(n), {<<SnapX(n), SnapY(n)>>})

\* C1 (as claimed): once a node's trace has computed a cell outside the
\* grid, the trace has ended without an exception leaving generate_network
\* and the node has no outgoing edge.
C1_OffGridEndsTrace ==
    \A n \in Nodes :
        offgrid[n] =>
            /\ pc # "raised"
            /\ result[n] \notin {"pending", "raise"}
            /\ OutEdges(n) = {}

\* C2 (as claimed): the graph never holds an edge from a node to itself.
C2_NoSelfEdge == \A e \in G : e[1] # e[2]

\* C3 (as claimed): no trace runs more iterations of its loop than the grid
\* has cells.
C3_StepsBounded == \A n \in Nodes : steps[n] <= Rows * Cols

\* C4: a node whose downstream path comes back to a cell it has visited
\* before reaching a reservoir, no-data or the edge of the grid never gets an
\* outgoing edge; its trace stays on the grid, raises nothing, runs at most
\* one iteration per cell and, once over, has ended at the visited check.
C4_CycleEndsWithoutEdge ==
    pc \notin {"snap", "idle"} =>
        \A n \in Nodes :
            \/ /\ OutEdges(n) = {}
               /\ ~offgrid[n]
               /\ steps[n] <= Rows * Cols
               /\ result[n] \in {"pending", "loop"}
               /\ Traced(n) => result[n] = "loop"
            \/ Downstream(n)[1] # "cycle"

\* a finished run in which the last node went round a cycle of three or more
\* cells
C4_Witness ==
    /\ pc = "done"
    /\ Downstream(N - 1)[1] = "cycle"
    /\ result[N - 1] = "loop"
    /\ steps[N - 1] >= 3

\* C5: every node has at most one outgoing edge, and the graph has no more
\* edges than nodes.
C5_AtMostOneOutgoing ==
    /\ \A n \in Nodes : Cardinality(OutEdges(n)) <= 1
    /\ Cardinality(G) <= N

\* a finished run of two stations on different cells, each with an edge to
\* the other
C5_Witness ==
    /\ pc = "done"
    /\ N = 2
    /\ <<SnapX(0), SnapY(0)>> # <<SnapX(1), SnapY(1)>>
    /\ G = {<<0, 1>>, <<1, 0>>}

\* C6 (as claimed): the graph returned holds the edge A->B exactly when B is
\* the id at the first reservoir cell of A's downstream path on the grid.
C6_EdgesAreDownstream ==
    pc = "done" =>
        G = {<<n, Downstream(n)[2]>> :
                n \in {m \in Nodes : Downstream(m)[1] = "reservoir"}}

\* C7: a node that starts on a no-data cell, or whose downstream path steps
\* into a no-data cell, or whose trace ended at the no-data check, has no
\* outgoing edge; the trace of a node whose downstream path steps into a
\* no-data cell ends at the no-data check; and no edge leads to a station
\* snapped to a no-data cell.
C7_NoDataEndsWithoutEdge ==
    pc \notin {"snap", "idle"} =>
        /\ \A n \in Nodes :
              \/ OutEdges(n) = {}
              \/ /\ result[n] # "nan"
                 /\ band[SnapY(n)][SnapX(n)] # NaN
                 /\ Downstream(n)[1] # "nodata"
        /\ \A n \in Nodes :
              \/ ~Traced(n)
              \/ result[n] = "nan"
              \/ Downstream(n)[1] # "nodata"
        /\ \A e \in G : band[SnapY(e[2])][SnapX(e[2])] # NaN

\* a finished run in which the last node stepped from its own cell into a
\* no-data cell that holds another station
C7_Witness ==
    /\ pc = "done"
    /\ result[N - 1] = "nan"
    /\ steps[N - 1] = 1
    /\ ~OffGrid(idxx, idxy)
    /\ raster[idxy][idxx] \notin {NaN, N - 1}

\* C8: while and after the raster is built, every cell holds NaN if none of
\* the stations written so far snaps to it, and otherwise the id of the
\* latest of them in table order (so at most one id).
SnappedTo(x, y) ==
    {n \in Nodes : n < resid /\ SnapX(n) = x /\ SnapY(n) = y}
C8_RasterHoldsLatest ==
    pc # "idle" =>
        \A y \in RowIdx, x \in ColIdx :
            /\ raster[y][x] \in Nodes \cup {NaN}
            /\ SnappedTo(x, y) = {} => raster[y][x] = NaN
            /\ SnappedTo(x, y) # {} =>
                  /\ raster[y][x] \in SnappedTo(x, y)
                  /\ \A n \in SnappedTo(x, y) : n <= raster[y][x]

\* the raster is complete, two stations with different coordinates share a
\* cell, another cell is empty
C8_Witness ==
    /\ pc = "trace"
    /\ \E n, m \in Nodes :
          /\ n < m
          /\ stations[n + 1] # stations[m + 1]
          /\ SnapX(n) = SnapX(m)
          /\ SnapY(n) = SnapY(m)
          /\ raster[SnapY(n)][SnapX(n)] = m
    /\ \E y \in RowIdx, x \in ColIdx : raster[y][x] = NaN

\* What node n's trace comes to when it runs alone on the grid and the
\* raster as they are: <<how it ends, the id reached or NaN>>.
RECURSIVE Alone(_, _, _, _)
Alone(x, y, pix, vis) ==
    LET ny == y + operations(pix)[1]
        nx == x + operations(pix)[2]
        o == StepOutcome(vis, nx, ny, band, raster)
    IN  IF o = "continue"
        THEN Alone(nx, ny, Isel(band, nx, ny), vis \cup {<<nx, ny>>})
        ELSE IF o = "reservoir" THEN <<o, Isel(raster, nx, ny)>>
        ELSE <<o, NaN>>

TraceAlone(n) ==
    IF band[SnapY(n)][SnapX(n)] = NaN THEN <<"nan", NaN>>
    ELSE Alone(SnapX(n), SnapY(n), band[SnapY(n)][SnapX(n)],
               {<<SnapX(n), SnapY(n)>>})

EdgesAlone(n) ==
    IF TraceAlone(n)[1] = "reservoir" THEN {<<n, TraceAlone(n)[2]>>} ELSE {}

\* C11: whatever the order or interleaving of the traces, (1) a trace that
\* has ended has given the graph exactly the edge it gives when run alone,
\* so the graph returned is the same for every order, and an exception
\* leaves the function exactly when some node's trace alone raises one;
\* (2) once the raster is built, no step changes the grid, the raster or the
\* station table; (3) a step of one node's trace leaves the locals of every
\* other trace alone and adds at most one edge, which starts at that node.
C11_EndedTracesAsAlone ==
    /\ \A n \in Nodes :
          tr[n].st = "ended" => OutEdges(n) = EdgesAlone(n)
    /\ \A n \in Nodes :
          tr[n].st = "raised" => TraceAlone(n)[1] = "raise"
    /\ \A n \in Nodes :
          tr[n].st \in {"idle", "walk", "raised"} => OutEdges(n) = {}
    /\ pc = "done" =>
          /\ G = UNION {EdgesAlone(n) : n \in Nodes}
          /\ \A n \in Nodes : TraceAlone(n)[1] # "raise"
C11_InputsReadOnly ==
    pc # "snap" => /\ band' = band
                   /\ raster' = raster
                   /\ stations' = stations
C11_StepIsLocal ==
    \A n \in Nodes :
        tr'[n] # tr[n] =>
            /\ \A m \in Nodes \ {n} : tr'[m] = tr[m]
            /\ G \subseteq G'
            /\ Cardinality(G' \ G) <= 1
            /\ \A e \in G' \ G : e[1] = n
C11_TracesIndependent ==
    /\ []C11_EndedTracesAsAlone
    /\ [][C11_InputsReadOnly]_vars
    /\ [][C11_StepIsLocal]_vars

\* the traces out of table order and interleaved: the second node's trace
\* has ended with an edge while the first node's trace, which will give an
\* edge too, is under way with a step behind it
C11_Witness ==
    /\ pc = "trace"
    /\ N = 2
    /\ tr[1].st = "ended"
    /\ OutEdges(1) # {}
    /\ tr[0].st = "walk"
    /\ Cardinality(tr[0].vis) >= 2
    /\ TraceAlone(0)[1] = "reservoir"

\* ------------------------------------------------------------------------
\* Properties of filtering
\* ------------------------------------------------------------------------

\* C9 (as claimed): a satellites list that passes the two assertions is
\* processed without an exception: the SAR series is bound, every listed
\* optical satellite has its series among those to merge, and there is at
\* least one of them.
C9_ValidSatellitesProcessed ==
    (fpc \in {"merge", "filt2", "done", "error"}
        /\ ferror # "AssertionError") =>
        /\ ferror = "none"
        /\ s1_bound
        /\ optical_to_concat # <<>>
        /\ \A sat \in {"l8", "l9", "s2"} :
              sat \in satellites =>
                  \E k \in 1 .. Len(optical_to_concat) :
                      optical_to_concat[k] = sat

\* C10 (as claimed): every row filter 2 has gone through holds SAR + T if
\* its deviation was above T, SAR - T if it was below -T, and its optical
\* value otherwise.
C10_SignedTowardBoundary ==
    fpc = "filt2" =>
        \A k \in 1 .. (row - 1) :
            LET t == Filt2Thresh(res_nomArea[curr_dam_index + 1],
                                 filt_2_thresh)
                d == WA_Optical_in[k] - WA_SAR[k]
            IN  WA_Optical[k] =
                    IF d > t THEN WA_SAR[k] + t
                    ELSE IF d < -t THEN WA_SAR[k] - t
                    ELSE WA_Optical_in[k]

====
